---- MODULE Spec2Model ----
(***************************************************************************)
(* Model of scripts/extract-qoder-wiki.py: the documentation scaffolder.   *)
(* The state is the part of the filesystem the script reads and writes     *)
(* (package.json, docs/, the thirteen template files, docs/README.md), the *)
(* wall clock, and the position, standard output and exit status of the    *)
(* running script.  The script is single threaded; the environment (the    *)
(* user editing files, permissions, a disk filling up) acts between runs,  *)
(* and the disk may fill up while a run is in progress.                    *)
(* The model assumes that standard output accepts every message.           *)
(***************************************************************************)
EXTENDS Integers, Sequences, FiniteSets, TLC

\* ------------------------------------------------------------------ bounds
MaxRuns == 2          \* invocations of the script in one behaviour
MaxOps == 1           \* operations of the user between runs in one behaviour
MaxClock == 2         \* the clock stops advancing at this tick
TicksPerSecond == 2   \* clock ticks per second of the formatted timestamp

\* ------------------------------------------------------- program constants
\* wiki_sections (lines 21-35), in the dict's insertion order
wiki_sections ==
  << [title |-> "Getting Started",                 filename |-> "01-getting-started.md"],
     [title |-> "Technology Stack",                filename |-> "02-technology-stack.md"],
     [title |-> "Project Structure",               filename |-> "03-project-structure.md"],
     [title |-> "Frontend Architecture",           filename |-> "04-frontend-architecture.md"],
     [title |-> "Backend Architecture",            filename |-> "05-backend-architecture.md"],
     [title |-> "API Endpoints Reference",         filename |-> "06-api-reference.md"],
     [title |-> "Real-Time Communication",         filename |-> "07-realtime-communication.md"],
     [title |-> "Component Architecture",          filename |-> "08-component-architecture.md"],
     [title |-> "State Management Integration",    filename |-> "09-state-management.md"],
     [title |-> "Authentication Flow",             filename |-> "10-authentication-flow.md"],
     [title |-> "Data Models & ORM Mapping",       filename |-> "11-data-models.md"],
     [title |-> "Middleware & Request Processing", filename |-> "12-middleware.md"],
     [title |-> "Routing & Navigation",            filename |-> "13-routing-navigation.md"] >>

\* readme_path (line 141): the name of the index file under docs/
readme_path == "README.md"

\* The markdown links of readme_content (lines 87-106), group by group in
\* document order; the two script paths of lines 130 and 133 stand in a code
\* block and are not links.
Link(g, t, u) == [group |-> g, text |-> t, target |-> u]

links_getting_started_drift ==
  << Link("Getting Started", "Getting Started", "./01-getting-started.md"),
     Link("Getting Started", "Technology Stack", "./02-tech-stack.md") >>

links_getting_started ==
  << Link("Getting Started", "Getting Started", "./01-getting-started.md"),
     Link("Getting Started", "Technology Stack", "./02-technology-stack.md") >>

links_architecture ==
  << Link("Architecture", "Project Structure", "./03-project-structure.md"),
     Link("Architecture", "Frontend Architecture", "./04-frontend-architecture.md"),
     Link("Architecture", "Backend Architecture", "./05-backend-architecture.md"),
     Link("Architecture", "Component Architecture", "./08-component-architecture.md") >>

links_development ==
  << Link("Development", "API Endpoints Reference", "./06-api-reference.md"),
     Link("Development", "Real-Time Communication", "./07-realtime-communication.md"),
     Link("Development", "State Management Integration", "./09-state-management.md"),
     Link("Development", "Authentication Flow", "./10-authentication-flow.md") >>

links_data_infrastructure ==
  << Link("Data & Infrastructure", "Data Models & ORM Mapping", "./11-data-models.md"),
     Link("Data & Infrastructure", "Middleware & Request Processing", "./12-middleware.md"),
     Link("Data & Infrastructure", "Routing & Navigation", "./13-routing-navigation.md") >>

readme_links ==
  links_getting_started \o links_architecture \o links_development
    \o links_data_infrastructure

\* ------------------------------------------------------------------- state
VARIABLES
  manifest,      \* package.json exists in the working directory
  docs,          \* the path docs: "absent", "dir" or "file" (a non-directory)
  cwdWritable,   \* entries can be created in the working directory
  docsWritable,  \* entries can be created in docs/
  diskFull,      \* no data can be written
  files,         \* content of every catalog file and of README.md under docs/
  now,           \* the wall clock, in ticks
  pc,            \* "idle", "mkdir", "loop", "index", "exited"
  idx,           \* position of the for loop of line 38 in wiki_sections
  out,           \* what the current run has printed
  calls,         \* the operations the current run has entered, in order
  exit,          \* exit status of the current run, -1 while none
  exc,           \* the exception that ended the current run, "" when none
  pre,           \* the filesystem as the current run found it
  prevExit,      \* exit status of the run before the current one, -1 when none
  runs,          \* invocations so far
  ops            \* operations of the user so far

vars == << manifest, docs, cwdWritable, docsWritable, diskFull, files, now, pc,
           idx, out, calls, exit, exc, pre, prevExit, runs, ops >>

fsVars == << manifest, docs, cwdWritable, docsWritable, diskFull, files >>
runVars == << pc, idx, out, calls, exit, exc, pre, prevExit, runs >>

\* ----------------------------------------------------------- file contents
Absent == [kind |-> "absent", title |-> "", ts |-> -1, links |-> << >>]
Truncated == [kind |-> "empty", title |-> "", ts |-> -1, links |-> << >>]
UserContent == [kind |-> "user", title |-> "", ts |-> -1, links |-> << >>]

CatalogFiles == { wiki_sections[k].filename : k \in 1..Len(wiki_sections) }
FileNames == CatalogFiles \cup {readme_path}

\* datetime.now().strftime('%Y-%m-%d %H:%M:%S') (lines 72, 83): the clock
\* truncated to whole seconds
strftime(t) == t \div TicksPerSecond

\* the template f-string of lines 56-73
template(section_name, t) ==
  [kind |-> "template", title |-> section_name, ts |-> strftime(t), links |-> << >>]

\* the readme_content f-string of lines 81-139
readme_content(t) ==
  [kind |-> "readme", title |-> "FriendFinder Documentation", ts |-> strftime(t),
   links |-> readme_links]

Msg(m, a) == [msg |-> m, arg |-> a]
Call(o, a) == [op |-> o, arg |-> a]

Snapshot == [manifest |-> manifest, docs |-> docs, files |-> files,
             docsWritable |-> docsWritable, cwdWritable |-> cwdWritable,
             now |-> now]

Init ==
  /\ manifest \in BOOLEAN
  /\ docs \in {"absent", "dir", "file"}
  /\ cwdWritable \in BOOLEAN
  /\ docsWritable \in BOOLEAN
  /\ (docs # "dir") => docsWritable
  /\ (docs # "absent") => cwdWritable
  /\ diskFull = FALSE
  /\ files = [f \in FileNames |-> Absent]
  /\ now = 0
  /\ pc = "idle"
  /\ idx = 1
  /\ out = << >>
  /\ calls = << >>
  /\ exit = -1
  /\ exc = ""
  /\ pre = Snapshot
  /\ prevExit = -1
  /\ runs = 0
  /\ ops = 0

\* ------------------------------------------------------ filesystem helpers
\* Path.exists() on docs/<f> (line 40)
Exists(fs, f) == fs[f] # Absent

\* Path("package.json").exists() (line 151)
ManifestExistsAlways == TRUE

ManifestExists == manifest

\* docs_dir.mkdir(exist_ok=True) (line 18): the exception it raises for a
\* path in state d under a working directory that is writable (w) or not
mkdir_no_exist_ok(d, w) ==
  IF d # "absent" THEN "FileExistsError"
  ELSE IF ~w THEN "PermissionError" ELSE ""

mkdir(d, w) ==
  IF d = "dir" THEN ""
  ELSE IF d = "file" THEN "FileExistsError"
  ELSE IF ~w THEN "PermissionError" ELSE ""

\* with open(path, 'w') as f: f.write(data) (lines 75-76, 142-143): the
\* exception raised and the content left behind.  Creating a file needs a
\* writable directory; on a full disk an existing file is left truncated
\* and a new one is left empty or is not created.
WriteOutcomes(fs, f, data) ==
  IF ~Exists(fs, f) /\ ~docsWritable
    THEN { [exc |-> "PermissionError", content |-> fs[f]] }
  ELSE IF diskFull
    THEN { [exc |-> "OSError", content |-> c] :
             c \in {Truncated} \cup (IF Exists(fs, f) THEN {} ELSE {Absent}) }
  ELSE { [exc |-> "", content |-> data] }

\* create_section_template (lines 53-76)
create_section_template(fs, f, section_name, t) ==
  { [exc |-> o.exc, files |-> [fs EXCEPT ![f] = o.content]] :
      o \in WriteOutcomes(fs, f, template(section_name, t)) }

\* create_main_readme (lines 78-143)
create_main_readme_if_absent(fs, t) ==
  IF Exists(fs, readme_path) THEN { [exc |-> "", files |-> fs] }
  ELSE { [exc |-> o.exc, files |-> [fs EXCEPT ![readme_path] = o.content]] :
           o \in WriteOutcomes(fs, readme_path, readme_content(t)) }

create_main_readme(fs, t) ==
  { [exc |-> o.exc, files |-> [fs EXCEPT ![readme_path] = o.content]] :
      o \in WriteOutcomes(fs, readme_path, readme_content(t)) }

\* the test of line 40
NeedsTemplateAlways(fs, f) == TRUE

NeedsTemplateInverted(fs, f) == Exists(fs, f)

NeedsTemplate(fs, f) == ~Exists(fs, f)

\* the print of line 42, inside the if of line 40
progress_always(created, f) == << Msg("created", f) >>

progress(created, f) == IF created THEN << Msg("created", f) >> ELSE << >>

\* the for loop of line 38 ends after the last catalog entry
LoopDoneEarly(k) == k >= Len(wiki_sections)

LoopDone(k) == k > Len(wiki_sections)

\* no try/except anywhere: an exception leaves main (line 159) and ends the
\* process
UnhandledSwallowed(e) == FALSE

Unhandled(e) == e # ""

\* exit status of a process ended by an uncaught exception (line 159)
UncaughtExit == 1

\* exit status after the return of line 153
PreconditionExitFailure == UncaughtExit

PreconditionExit == 0

Running == pc \in {"mkdir", "loop", "index"}

\* ----------------------------------------------------------- the script
\* main (lines 145-156) up to the call of create_wiki_structure
main ==
  /\ ~Running
  /\ runs < MaxRuns
  /\ runs' = runs + 1
  /\ pre' = Snapshot
  /\ prevExit' = exit
  /\ calls' = << >>
  /\ exc' = ""
  /\ idx' = 1
  /\ IF ~ManifestExists
       THEN /\ out' = << Msg("banner", ""), Msg("rule", ""), Msg("guidance", "") >>
            /\ pc' = "exited"
            /\ exit' = PreconditionExit
       ELSE /\ out' = << Msg("banner", ""), Msg("rule", "") >>
            /\ pc' = "mkdir"
            /\ exit' = -1
  /\ UNCHANGED << fsVars, now, ops >>

\* create_wiki_structure, lines 17-18
EnsureDirectory ==
  /\ pc = "mkdir"
  /\ calls' = Append(calls, Call("EnsureDirectory", 0))
  /\ LET e == mkdir(docs, cwdWritable) IN
       /\ exc' = e
       /\ IF Unhandled(e)
            THEN /\ pc' = "exited"
                 /\ exit' = UncaughtExit
                 /\ UNCHANGED << docs, docsWritable >>
            ELSE /\ pc' = IF LoopDone(1) THEN "index" ELSE "loop"
                 /\ docs' = "dir"
                 /\ docsWritable' = IF docs = "dir" THEN docsWritable ELSE TRUE
                 /\ UNCHANGED exit
  /\ UNCHANGED << manifest, cwdWritable, diskFull, files, now, idx, out, pre,
                  prevExit, runs, ops >>

\* create_wiki_structure, lines 38-42: one iteration of the loop
WriteTemplateIfAbsent ==
  /\ pc = "loop"
  /\ calls' = Append(calls, Call("WriteTemplateIfAbsent", idx))
  /\ LET s == wiki_sections[idx]
         need == NeedsTemplate(files, s.filename)
         outcomes == IF need
                       THEN create_section_template(files, s.filename, s.title, now)
                       ELSE { [exc |-> "", files |-> files] }
     IN \E o \in outcomes :
          /\ files' = o.files
          /\ exc' = o.exc
          /\ IF Unhandled(o.exc)
               THEN /\ pc' = "exited"
                    /\ exit' = UncaughtExit
                    /\ UNCHANGED << idx, out >>
               ELSE /\ out' = out \o progress(need, s.filename)
                    /\ idx' = idx + 1
                    /\ pc' = IF LoopDone(idx + 1) THEN "index" ELSE "loop"
                    /\ UNCHANGED exit
  /\ UNCHANGED << manifest, docs, cwdWritable, docsWritable, diskFull, now, pre,
                  prevExit, runs, ops >>

\* create_wiki_structure, lines 44-51
WriteIndex ==
  /\ pc = "index"
  /\ calls' = Append(calls, Call("WriteIndex", 0))
  /\ \E o \in create_main_readme(files, now) :
       /\ files' = o.files
       /\ exc' = o.exc
       /\ pc' = "exited"
       /\ IF Unhandled(o.exc)
            THEN /\ exit' = UncaughtExit
                 /\ UNCHANGED out
            ELSE /\ exit' = 0
                 /\ out' = Append(out, Msg("summary", ""))
  /\ UNCHANGED << manifest, docs, cwdWritable, docsWritable, diskFull, now, idx,
                  pre, prevExit, runs, ops >>

\* ------------------------------------------------------- the environment
\* the wall clock advances
Tick ==
  /\ now < MaxClock
  /\ now' = now + 1
  /\ UNCHANGED << fsVars, runVars, ops >>

\* Between runs: what the run left is no longer the current state.
Idle ==
  /\ ~Running
  /\ ops < MaxOps
  /\ ops' = ops + 1
  /\ pc' = "idle"
  /\ UNCHANGED << idx, out, calls, exit, exc, pre, prevExit, runs, now >>

\* The files the user touches between runs: the first, a middle and the last
\* catalog file, and the index.  The script treats every catalog entry alike.
UserFiles ==
  { wiki_sections[1].filename, wiki_sections[7].filename,
    wiki_sections[Len(wiki_sections)].filename, readme_path }

\* the user creates or edits a file under docs/
UserEdit ==
  /\ Idle
  /\ docs = "dir"
  /\ \E f \in UserFiles :
       /\ Exists(files, f) \/ docsWritable
       /\ files' = [files EXCEPT ![f] = UserContent]
  /\ UNCHANGED << manifest, docs, cwdWritable, docsWritable, diskFull >>

\* the user deletes a file under docs/
UserDelete ==
  /\ Idle
  /\ docsWritable
  /\ \E f \in UserFiles :
       /\ Exists(files, f)
       /\ files' = [files EXCEPT ![f] = Absent]
  /\ UNCHANGED << manifest, docs, cwdWritable, docsWritable, diskFull >>

\* package.json is created or removed
SetManifest ==
  /\ Idle
  /\ manifest' = ~manifest
  /\ UNCHANGED << docs, cwdWritable, docsWritable, diskFull, files >>

\* the permissions of docs/ or of the working directory change
Chmod ==
  /\ Idle
  /\ IF docs = "dir"
       THEN docsWritable' = ~docsWritable /\ UNCHANGED cwdWritable
       ELSE cwdWritable' = ~cwdWritable /\ UNCHANGED docsWritable
  /\ UNCHANGED << manifest, docs, diskFull, files >>

\* the disk fills up, possibly while a run is in progress
DiskFill ==
  /\ ~diskFull
  /\ diskFull' = TRUE
  /\ UNCHANGED << manifest, docs, cwdWritable, docsWritable, files, now, runVars,
                  ops >>

\* space is freed
DiskFree ==
  /\ Idle
  /\ diskFull
  /\ diskFull' = FALSE
  /\ UNCHANGED << manifest, docs, cwdWritable, docsWritable, files >>

Next ==
  \/ main
  \/ EnsureDirectory
  \/ WriteTemplateIfAbsent
  \/ WriteIndex
  \/ Tick
  \/ UserEdit
  \/ UserDelete
  \/ SetManifest
  \/ Chmod
  \/ DiskFill
  \/ DiskFree

Spec == Init /\ [][Next]_vars

\* ------------------------------------------------------------ properties
N == Len(wiki_sections)
FileOf(k) == wiki_sections[k].filename

\* A run is current: the script runs, or has exited and nothing has touched
\* the filesystem since.
Current == pc # "idle"
Finished == pc = "exited"
Succeeded == Finished /\ exit = 0 /\ pre.manifest

IsCreatedNotice(m) == m.msg = "created"
Notices == LET ms == SelectSeq(out, IsCreatedNotice) IN [k \in 1..Len(ms) |-> ms[k].arg]

\* the catalog files this run has created so far, in catalog order
CreatedByRun(f) == ~Exists(pre.files, f) /\ files[f].kind = "template"
CreatedSeq == SelectSeq([k \in 1..N |-> FileOf(k)], CreatedByRun)

\* the content of f is a complete template for section k written during the
\* current run
FreshTemplate(k) ==
  \E t \in pre.now..now : files[FileOf(k)] = template(wiki_sections[k].title, t)

LastCall == calls[Len(calls)]
MkdirRaised == Current /\ Len(calls) = 1 /\ exc # ""
PastMkdir == Current /\ Len(calls) >= 1

\* C1: a catalog file that exists when a run starts, whether an earlier run
\* created it or the user wrote it, has the same content at every point of
\* the run and after it.
C1_TemplatesNeverOverwritten ==
  Current => \A f \in CatalogFiles : Exists(pre.files, f) => files[f] = pre.files[f]

\* a second successful run has ended that found twelve templates of the
\* first run and one file the user edited in between
C1_Witness ==
  /\ Succeeded /\ prevExit = 0
  /\ \E f \in CatalogFiles :
       /\ pre.files[f] = UserContent
       /\ files[f] = UserContent
       /\ \A g \in CatalogFiles \ {f} :
            pre.files[g].kind = "template" /\ files[g] = pre.files[g]

\* C2: a run that finds no package.json leaves the filesystem as it found
\* it: docs is not created, no template and no README is written.
C2_NoManifestNoChange ==
  (Current /\ ~pre.manifest) =>
     /\ docs = pre.docs
     /\ files = pre.files
     /\ manifest = pre.manifest

\* a run without manifest has ended in a directory where an earlier run
\* left docs/ and docs/README.md
C2_Witness ==
  /\ Finished /\ ~pre.manifest
  /\ pre.docs = "dir"
  /\ pre.files[readme_path].kind = "readme"
  /\ files = pre.files

\* C3: after a run with the manifest present that ended normally, docs/
\* holds all thirteen catalog files and README.md; and a run ends with an
\* error only when the filesystem refuses an operation (docs is a
\* non-directory, a directory is not writable, the disk is full).
C3_AllFilesExist ==
  /\ Cardinality(CatalogFiles) = 13
  /\ Succeeded =>
       /\ docs = "dir"
       /\ \A f \in CatalogFiles : Exists(files, f)
       /\ Exists(files, readme_path)
  /\ (Finished /\ pre.manifest /\ exit # 0) =>
       \/ pre.docs = "file"
       \/ pre.docs = "absent" /\ ~pre.cwdWritable
       \/ ~docsWritable
       \/ diskFull

\* a run has ended normally that found no docs/ at all
C3_Witness ==
  /\ Succeeded
  /\ pre.docs = "absent"
  /\ \A f \in FileNames : Exists(files, f)

\* C4: after every run that passed the precondition and ended normally,
\* docs/README.md is the generated index stamped with a time of that run,
\* whatever README.md held before.
C4_IndexRegenerated ==
  Succeeded =>
    \E t \in pre.now..now : files[readme_path] = readme_content(t)

\* a run has replaced the README of an earlier run by one with a later
\* timestamp
C4_Witness ==
  /\ Succeeded
  /\ pre.files[readme_path].kind = "readme"
  /\ files[readme_path].ts > pre.files[readme_path].ts

\* C5: a run that finds no package.json prints the guidance message and
\* returns normally: exit status 0, no exception, and none of
\* EnsureDirectory, WriteTemplateIfAbsent, WriteIndex is entered.
C5_GracefulEarlyReturn ==
  (Current /\ ~pre.manifest) =>
     /\ Finished
     /\ exit = 0
     /\ exc = ""
     /\ calls = << >>
     /\ out = << Msg("banner", ""), Msg("rule", ""), Msg("guidance", "") >>

\* a run without manifest has ended
C5_Witness == Finished /\ ~pre.manifest /\ Msg("guidance", "") = out[Len(out)]

\* C6: the links of a generated README are exactly the thirteen catalog
\* entries: each (title, ./filename) pair once, each under one of the four
\* category groups, and no other link.
ReadmeGroups == {"Getting Started", "Architecture", "Development", "Data & Infrastructure"}
IsLinkTo(l, k) ==
  l.text = wiki_sections[k].title /\ l.target = "./" \o wiki_sections[k].filename
LinksMatchCatalog(ls) ==
  /\ \A k \in 1..N : Cardinality({ j \in DOMAIN ls : IsLinkTo(ls[j], k) }) = 1
  /\ \A j \in DOMAIN ls : \E k \in 1..N : IsLinkTo(ls[j], k)
  /\ \A j \in DOMAIN ls : ls[j].group \in ReadmeGroups
  /\ \A g \in ReadmeGroups : \E j \in DOMAIN ls : ls[j].group = g

C6_ReadmeLinksCatalog ==
  files[readme_path].kind = "readme" => LinksMatchCatalog(files[readme_path].links)

\* a run has written the README
C6_Witness ==
  /\ Succeeded
  /\ files[readme_path].kind = "readme"
  /\ Len(files[readme_path].links) = N

\* C7 as claimed: EnsureDirectory creates a missing docs/, accepts an
\* existing directory, and itself raises the error when docs is a
\* non-directory or is unwritable.
C7_Original ==
  PastMkdir =>
    /\ (pre.docs = "absent" /\ pre.cwdWritable) => (docs = "dir" /\ ~MkdirRaised)
    /\ (pre.docs = "dir" /\ pre.docsWritable) => ~MkdirRaised
    /\ (\/ pre.docs = "file"
        \/ pre.docs = "dir" /\ ~pre.docsWritable
        \/ pre.docs = "absent" /\ ~pre.cwdWritable) => MkdirRaised

\* C7 amended: EnsureDirectory creates a missing docs/, accepts an existing
\* directory whether it is writable or not, and itself raises the error,
\* before any write is attempted, when docs is a non-directory or when docs
\* is missing and cannot be created.
C7_EnsureDirectory ==
  PastMkdir =>
    /\ (pre.docs = "absent" /\ pre.cwdWritable) => (docs = "dir" /\ ~MkdirRaised)
    /\ (pre.docs = "dir") => ~MkdirRaised
    /\ (\/ pre.docs = "file"
        \/ pre.docs = "absent" /\ ~pre.cwdWritable) =>
          /\ MkdirRaised
          /\ Finished /\ exit # 0
          /\ docs = pre.docs
          /\ files = pre.files

\* a run has passed EnsureDirectory on an existing unwritable docs/ and has
\* failed at its first file creation
C7_Witness ==
  /\ Finished
  /\ pre.docs = "dir" /\ ~pre.docsWritable
  /\ exc = "PermissionError"
  /\ Len(calls) = 2

\* C8: the operations of a run are entered in the order EnsureDirectory,
\* WriteTemplateIfAbsent for entries 1..13, WriteIndex; while the loop is at
\* entry i the files of the entries before i exist and the files from i on
\* and the README are as the run found them; once WriteIndex is entered all
\* thirteen catalog files exist.
ExpectedCalls ==
  [k \in 1..(N + 2) |->
     IF k = 1 THEN Call("EnsureDirectory", 0)
     ELSE IF k = N + 2 THEN Call("WriteIndex", 0)
     ELSE Call("WriteTemplateIfAbsent", k - 1)]

C8_StrictOrder ==
  Current =>
    /\ Len(calls) <= N + 2
    /\ calls = SubSeq(ExpectedCalls, 1, Len(calls))
    /\ (pc \in {"loop", "index"}) => docs = "dir"
    /\ (pc = "loop") =>
         /\ \A k \in 1..N : k < idx => Exists(files, FileOf(k))
         /\ \A k \in 1..N : k >= idx => files[FileOf(k)] = pre.files[FileOf(k)]
    /\ Running => files[readme_path] = pre.files[readme_path]
    /\ (Len(calls) = N + 2) => \A f \in CatalogFiles : Exists(files, f)

\* a run that found no docs/ has gone through all fifteen operations
C8_Witness ==
  /\ Succeeded
  /\ pre.docs = "absent"
  /\ calls = ExpectedCalls

C10_NoticeIffCreated ==
  /\ Current => Notices = CreatedSeq
  /\ Succeeded =>
       \A k \in 1..N :
         IF Exists(pre.files, FileOf(k))
           THEN files[FileOf(k)] = pre.files[FileOf(k)]
           ELSE FreshTemplate(k)

\* a run has found twelve of the thirteen files and has announced the one
\* it created
C10_Witness ==
  /\ Succeeded
  /\ Notices = << FileOf(7) >>
  /\ \A k \in 1..N : k # 7 => Exists(pre.files, FileOf(k))

====
